---- MODULE Spec2Model ----
(***************************************************************************)
(* State-machine model of DependencyAgent (src/agent_logic.py): the        *)
(* bootstrap of an unpinned ledger with its two healing protocols, the     *)
(* multi-pass update loop of run(), attempt_update_with_healing with its   *)
(* healing chain (root-cause diagnosis, advisor candidates, binary-search  *)
(* backtrack), the probe _try_install_and_validate, the ledger write       *)
(* _handle_success and the final health check.                             *)
(*                                                                         *)
(* The package index, pip, the validation script and the advisor (LLM) are *)
(* external: every answer they can give is a nondeterministic input of the *)
(* action that calls them.  A version is a positive integer ordered as     *)
(* packaging.version orders versions; the ledger is the map from package   *)
(* name to pinned version.  The variables named as in the source are the   *)
(* program's.  The other variables only record what the program did:       *)
(* lastProbe and lastWrite hold the probe and the ledger write of the step *)
(* just taken, advisor_called whether that step called the advisor,        *)
(* quota_seen whether the advisor ever answered with quota exhaustion,     *)
(* healing_log the healing stages the attempt under way has entered,       *)
(* search_log the probes of the binary search under way, diagnosed the     *)
(* cross-package diagnoses of the run, succeeded_this_pass whether an      *)
(* attempt of the pass returned success, and health_result the outcome of  *)
(* the final health check once it ran, report what the loop printed when   *)
(* it found an empty plan, probe_failed whether a probe of the run has     *)
(* returned failure, and lastBaseline the baseline the step just taken     *)
(* wrote with the outcome of its install and validation.  ledger_exists    *)
(* is whether the requirements file is there.                              *)
(***************************************************************************)
EXTENDS Integers, Sequences, FiniteSets, TLC

\* ---------------------------------------------------------------- bounds
\* Versions are 1..MaxVer.
MaxVer == 3
\* Longest candidate list the advisor answers with.
MaxCandLen == 4

\* ------------------------------------------------------ program constants
MAX_RUN_PASSES == 3
MAX_LLM_BACKTRACK_ATTEMPTS == 3

\* An entry that is no parsable version (parse_version raises on it), and the
\* "no version" filler of empty table entries.
NoVersion == 0

\* ------------------------------------------------------------ the world
\* The ledger's packages and the names the advisor may blame.
Pkgs == {"numpy", "pandas"}
Culprits == Pkgs \cup {"protobuf"}
Versions == 1..MaxVer

\* The stable versions the package index lists.
Registry(package_name) ==
    IF package_name = "numpy" THEN 1..MaxVer
    ELSE IF package_name = "pandas" THEN {MaxVer - 1}
    ELSE {}

\* Static import-usage counts and the primary packages (spec's worked example).
usage_scores == [p \in Pkgs |-> IF p = "numpy" THEN 2 ELSE 1]
primary_packages == {"numpy"}

\* major.minor.patch of a version: 1 = 0.0.1, 2 = 0.1.0, 3 = 0.1.1,
\* 4 = 1.0.0, 5 = 1.0.1, ...
Major(v) == v \div 4
Minor(v) == (v \div 2) % 2

Range(s) == {s[k] : k \in 1..Len(s)}

Max(S) == CHOOSE x \in S : \A y \in S : y <= x

\* sorted(..., key=parse_version) of a set of versions
RECURSIVE SortedSeq(_)
SortedSeq(S) ==
    IF S = {} THEN <<>>
    ELSE LET m == CHOOSE x \in S : \A y \in S : x <= y
         IN <<m>> \o SortedSeq(S \ {m})

\* get_latest_version: the highest stable version, None (NoVersion) without one
get_latest_version(package_name) ==
    IF Registry(package_name) = {} THEN NoVersion ELSE Max(Registry(package_name))

\* get_all_versions_between: stable versions in [start, end), ascending
get_all_versions_between(package_name, start_ver, end_ver) ==
    SortedSeq({v \in Registry(package_name) : start_ver <= v /\ v < end_ver})

\* _calculate_update_risk; parse_version raises on a string that is no
\* version, and the except clause answers with severity 1.  First the variant
\* with every weight 1.
_calculate_update_risk_unweighted(package, current_ver, target_ver) ==
    LET usage == usage_scores[package]
        is_primary == IF package \in primary_packages THEN 1 ELSE 0
        semver_severity ==
            IF current_ver = NoVersion \/ target_ver = NoVersion THEN 1
            ELSE IF Major(target_ver) > Major(current_ver) THEN 3
            ELSE IF Minor(target_ver) > Minor(current_ver) THEN 2
            ELSE 1
    IN usage + is_primary + semver_severity

_calculate_update_risk(package, current_ver, target_ver) ==
    LET usage == usage_scores[package]
        is_primary == IF package \in primary_packages THEN 1 ELSE 0
        semver_severity ==
            IF current_ver = NoVersion \/ target_ver = NoVersion THEN 1
            ELSE IF Major(target_ver) > Major(current_ver) THEN 3
            ELSE IF Minor(target_ver) > Minor(current_ver) THEN 2
            ELSE 1
    IN (usage * 5) + (is_primary * 3) + (semver_severity * 2)

\* ------------------------------------------------------------ constraints
\* A dynamic constraint is the string f"{package}{suggested_constraint}"; it is
\* kept as its two parts.  "None" is Python's None formatted by the f-string.
Preds == {"<4"}
NoConstraint == [pkg |-> "", con |-> ""]
Constraints == [pkg : Culprits \cup {"None"}, con : Preds \cup {"None"}]

\* _get_package_name_from_spec of a constraint string: the leading run of
\* [a-zA-Z0-9-_]; a formatted None is part of that run.
_get_package_name_from_spec(c) ==
    IF c.con \in Preds THEN c.pkg ELSE c.pkg \o c.con

\* ------------------------------------------------------- advisor answers
\* {} : no data (advisor unavailable, timeout, quota, no JSON object found).
NoData == [cause |-> "nodata", package |-> "None", suggested_constraint |-> "None"]

\* The JSON objects the diagnosis of package pkg may hold.  A key that is
\* missing reads as None (dict.get).
DiagnosisAnswers(pkg) ==
    {[cause |-> "self", package |-> pkg, suggested_constraint |-> "None"],
     [cause |-> "self", package |-> "None", suggested_constraint |-> "None"]}
    \cup {[cause |-> "incompatibility", package |-> b, suggested_constraint |-> "<4"] :
            b \in Culprits \ {pkg}}

\* An entry of the candidate list the advisor answers with: a version, or
\* NoVersion for an entry that is no version string.
CandidateEntries == {NoVersion} \cup Versions

\* ------------------------------------------------------------- the state
VARIABLES
    pc,
    ledger,
    env,
    llm_available,
    dynamic_constraints,
    pass_num,
    packages_to_update,
    i,
    changed_packages_this_pass,
    learned_a_new_constraint,
    final_successful_updates,
    final_failed_updates,
    root_cause,
    version_candidates,
    candidates_probed,
    versions,
    low,
    high,
    best_working_result,
    healing_log,
    search_log,
    health_result,
    report,
    probe_failed,
    ledger_exists,
    lastBaseline,
    exclusions_from_this_run,
    failing_packages,
    attempt,
    suspect_index,
    advisor_called,
    quota_seen,
    lastProbe,
    lastWrite,
    diagnosed,
    succeeded_this_pass

vars == <<pc, ledger, env, llm_available, dynamic_constraints, pass_num,
          packages_to_update, i, changed_packages_this_pass,
          learned_a_new_constraint, final_successful_updates,
          final_failed_updates, root_cause, version_candidates,
          candidates_probed, versions, low, high, best_working_result,
          healing_log, search_log, health_result, report, probe_failed,
          ledger_exists, lastBaseline,
          exclusions_from_this_run,
          failing_packages, attempt, suspect_index, advisor_called, quota_seen,
          lastProbe, lastWrite, diagnosed, succeeded_this_pass>>

\* what run() owns
loopVars == <<dynamic_constraints, pass_num, packages_to_update, i,
              changed_packages_this_pass, learned_a_new_constraint,
              final_successful_updates, final_failed_updates,
              succeeded_this_pass, diagnosed, health_result, report>>

\* what the bootstrap owns: the exclusions it leaves to run() and the locals
\* of its healing protocol
bootVars == <<exclusions_from_this_run, failing_packages, attempt, suspect_index,
              ledger_exists>>

\* the locals of attempt_update_with_healing and _binary_search_backtrack
attemptVars == <<version_candidates, candidates_probed, versions, low, high,
                 best_working_result, healing_log, search_log>>

EmptyEnv == [p \in Pkgs |-> NoVersion]
NoResult == [version |-> NoVersion, installed_packages |-> EmptyEnv, validated |-> FALSE]
NoSuccess == [target |-> NoVersion, reached |-> NoVersion]
NoBaseline == [source |-> "", frozen |-> EmptyEnv, installed |-> FALSE,
               validated |-> FALSE]
NoFailure == [target |-> NoVersion, reason |-> ""]
NoProbe == [package |-> "", version |-> NoVersion, cons |-> {}, kind |-> "",
            validated |-> FALSE, success |-> FALSE, nth |-> 0, after |-> <<>>]
NoWrite == [package |-> "", version |-> NoVersion, probed |-> NoVersion,
            validated |-> FALSE]

\* the plan entry under attempt
package == packages_to_update[i][1]
current_ver == packages_to_update[i][2]
target_ver == packages_to_update[i][3]

\* The ledgers a run starts from: fully pinned ones, and two with unpinned
\* lines (a line without '==' holds NoVersion).  A ledger file that is
\* missing (ledger_exists is FALSE) has no lines.
InitialLedgers ==
    {l \in [Pkgs -> Versions] : l["pandas"] \in {MaxVer - 2, MaxVer - 1}}
    \cup {[p \in Pkgs |-> NoVersion],
          [p \in Pkgs |-> IF p = "numpy" THEN 1 ELSE NoVersion]}

Init ==
    /\ pc = "start"
    /\ ledger \in InitialLedgers
    /\ ledger_exists \in BOOLEAN
    /\ ~ledger_exists => ledger = EmptyEnv
    /\ env = EmptyEnv
    /\ llm_available = TRUE
    /\ dynamic_constraints = <<>>
    /\ pass_num = 0
    /\ packages_to_update = <<>>
    /\ i = 0
    /\ changed_packages_this_pass = {}
    /\ learned_a_new_constraint = FALSE
    /\ final_successful_updates = [p \in Pkgs |-> NoSuccess]
    /\ final_failed_updates = [p \in Pkgs |-> NoFailure]
    /\ root_cause = NoData
    /\ version_candidates = 0
    /\ candidates_probed = 0
    /\ versions = <<>>
    /\ low = 0
    /\ high = 0
    /\ best_working_result = NoResult
    /\ healing_log = <<>>
    /\ search_log = <<>>
    /\ health_result = ""
    /\ report = ""
    /\ probe_failed = FALSE
    /\ lastBaseline = NoBaseline
    /\ exclusions_from_this_run = {}
    /\ failing_packages = EmptyEnv
    /\ attempt = 0
    /\ suspect_index = 0
    /\ advisor_called = FALSE
    /\ quota_seen = FALSE
    /\ lastProbe = NoProbe
    /\ lastWrite = NoWrite
    /\ diagnosed = {}
    /\ succeeded_this_pass = FALSE

\* ---------------------------------------------------------------- probe
\* What pip, the validation script and the advisor's error summary answer in
\* one probe: the oracle runs only after an install that succeeded, the error
\* summary is asked for only after one that failed.
World ==
    {w \in [install_ok : BOOLEAN, oracle_ok : BOOLEAN, quota : BOOLEAN] :
        /\ w.install_ok => ~w.quota
        /\ ~w.install_ok => ~w.oracle_ok}

\* The constraints a probe of package_to_update adds to its request (line 375);
\* first the variant of a probe that adds none.
RequestedConstraints_none(package_to_update) ==
    {}

RequestedConstraints(package_to_update) ==
    {c \in Range(dynamic_constraints) :
        _get_package_name_from_spec(c) # package_to_update}

\* The pinned lines of the request (line 374): the ledger with the line of
\* package_to_update replaced.
RequestedPins(package_to_update, new_version) ==
    [p \in Pkgs |-> IF p = package_to_update THEN new_version ELSE ledger[p]]

\* Whether the probe returns success without running the validation (line 390).
SkipsValidation(new_version, old_version, changed_packages) ==
    new_version = old_version /\ changed_packages = {}

\* A step that calls the advisor (called) and is answered with quota
\* exhaustion (quota), and a step that does not call it.
AdvisorCall(called, quota) ==
    /\ advisor_called' = called
    /\ quota_seen' = (quota_seen \/ quota)

NoAdvisorCall ==
    AdvisorCall(FALSE, FALSE)

\* _try_install_and_validate: the result, the scratch environment it leaves,
\* and whether _ask_llm_to_summarize_error called the advisor and what the
\* advisor's availability is after it.
_try_install_and_validate(package_to_update, new_version, old_version, changed_packages, w) ==
    IF ~w.install_ok
    THEN [success |-> FALSE, validated |-> FALSE, env |-> EmptyEnv,
          llm |-> llm_available /\ ~w.quota,
          asked |-> llm_available, quota |-> llm_available /\ w.quota]
    ELSE IF SkipsValidation(new_version, old_version, changed_packages)
    THEN [success |-> TRUE, validated |-> FALSE,
          env |-> RequestedPins(package_to_update, new_version),
          llm |-> llm_available, asked |-> FALSE, quota |-> FALSE]
    ELSE [success |-> w.oracle_ok, validated |-> w.oracle_ok,
          env |-> RequestedPins(package_to_update, new_version),
          llm |-> llm_available, asked |-> FALSE, quota |-> FALSE]

\* The state a probe leaves; nth counts the advisor candidates probed in the
\* attempt so far, after holds the healing stages entered before the probe.
Probed(package_to_update, new_version, kind, nth, after, r) ==
    /\ env' = r.env
    /\ llm_available' = r.llm
    /\ AdvisorCall(r.asked, r.quota)
    /\ probe_failed' = (probe_failed \/ ~r.success)
    /\ lastProbe' = [package |-> package_to_update, version |-> new_version,
                     cons |-> RequestedConstraints(package_to_update),
                     kind |-> kind, validated |-> r.validated,
                     success |-> r.success, nth |-> nth, after |-> after]

\* A step without a probe.
NoProbeNow ==
    /\ lastProbe' = NoProbe
    /\ UNCHANGED <<env, probe_failed>>

\* _handle_success: the ledger becomes the pruned freeze, of installed_packages
\* when given (non-empty), else of the scratch environment as it is now.
\* First the variant that always freezes the scratch environment.
_handle_success_scratch(pkg, new_version, installed_packages, validated) ==
    /\ ledger' = env'
    /\ lastWrite' = [package |-> pkg, version |-> ledger'[pkg],
                     probed |-> new_version, validated |-> validated]
    /\ lastBaseline' = NoBaseline

_handle_success(pkg, new_version, installed_packages, validated) ==
    /\ ledger' = IF installed_packages = EmptyEnv THEN env' ELSE installed_packages
    /\ lastWrite' = [package |-> pkg, version |-> ledger'[pkg],
                     probed |-> new_version, validated |-> validated]
    /\ lastBaseline' = NoBaseline

\* A step without a ledger write.
NoWriteNow ==
    /\ lastWrite' = NoWrite
    /\ lastBaseline' = NoBaseline
    /\ UNCHANGED ledger

\* ------------------------------------------------------------ bootstrap
\* _get_requirements_state: the file is there and every line of the ledger
\* holds '=='; first the variant that takes every ledger for pinned.
is_pinned_always ==
    TRUE

is_pinned ==
    ledger_exists /\ \A p \in Pkgs : ledger[p] # NoVersion

\* What pip installs for the ledger as it is: a pinned line as pinned, an
\* unpinned one at the latest version of the index.
PermissiveInstall ==
    [p \in Pkgs |-> IF ledger[p] # NoVersion THEN ledger[p]
                    ELSE get_latest_version(p)]

\* The lowest version there is ("0.0.1", line 211).
LowestVersion == 1

\* What the steps before the first pass leave alone.
BootFrame ==
    /\ root_cause' = NoData
    /\ NoProbeNow
    /\ lastWrite' = NoWrite
    /\ UNCHANGED <<llm_available, loopVars, attemptVars>>

\* Lines 231-237: run starts; an unpinned ledger is bootstrapped first.
Start ==
    /\ pc = "start"
    /\ pc' = IF is_pinned THEN "plan" ELSE "bootstrap"
    /\ NoAdvisorCall
    /\ lastBaseline' = NoBaseline
    /\ UNCHANGED <<ledger, bootVars>>
    /\ BootFrame

\* Lines 108-116 and 131-134, then 235-237: the baseline is written (a pruned
\* freeze is fully pinned) and the passes begin; excluded holds the names
\* the healing changed, source the step that found the baseline.
BaselineFound(source, packages, excluded, install_ok, oracle_ok) ==
    /\ ledger' = packages
    /\ ledger_exists' = TRUE
    /\ lastBaseline' = [source |-> source, frozen |-> packages,
                        installed |-> install_ok, validated |-> oracle_ok]
    /\ exclusions_from_this_run' = exclusions_from_this_run \cup excluded
    /\ failing_packages' = EmptyEnv
    /\ attempt' = 0
    /\ suspect_index' = 0
    /\ pc' = "plan"

\* _run_bootstrap_and_validate of a package list: nothing installs from the
\* freeze of an environment whose install failed.  First the variant that
\* does not look at the validation.
BootstrapPasses_install_only(requirements_list, install_ok, oracle_ok) ==
    requirements_list # EmptyEnv /\ install_ok

BootstrapPasses(requirements_list, install_ok, oracle_ok) ==
    requirements_list # EmptyEnv /\ install_ok /\ oracle_ok

\* Lines 97-125: the permissive install; on failure the healing protocol
\* starts from the freeze of bootstrap_venv.
Bootstrap ==
    /\ pc = "bootstrap"
    /\ NoAdvisorCall
    /\ BootFrame
    /\ \E install_ok, oracle_ok \in BOOLEAN :
          /\ ~install_ok => ~oracle_ok
          /\ ~ledger_exists => ~install_ok
          /\ IF BootstrapPasses(PermissiveInstall, install_ok, oracle_ok)
             THEN BaselineFound("bootstrap", PermissiveInstall, {},
                                install_ok, oracle_ok)
             ELSE /\ failing_packages' =
                        IF install_ok THEN PermissiveInstall ELSE EmptyEnv
                  /\ attempt' = 0
                  /\ pc' = "llm_heal"
                  /\ lastBaseline' = NoBaseline
                  /\ UNCHANGED <<ledger, ledger_exists,
                                 exclusions_from_this_run, suspect_index>>

\* What the advisor answers a heal request with: quota exhaustion, any other
\* answer without usable changes, or one change; the advisor spells a name
\* as it likes.
AdvisorNames == Pkgs \cup {"NumPy"}

NoChange == [kind |-> "none", package |-> "", version |-> NoVersion]
QuotaExhausted == [kind |-> "quota", package |-> "", version |-> NoVersion]
HealAnswers ==
    {NoChange, QuotaExhausted}
    \cup [kind : {"changes"}, package : AdvisorNames, version : Versions]

\* Lines 150-198: one turn of the loop of _attempt_llm_bootstrap_heal, and
\* its end after MAX_LLM_BACKTRACK_ATTEMPTS turns.
LLMBootstrapHeal ==
    /\ pc = "llm_heal"
    /\ BootFrame
    /\ IF attempt >= MAX_LLM_BACKTRACK_ATTEMPTS
       THEN /\ pc' = "det_heal"
            /\ suspect_index' = 1
            /\ NoAdvisorCall
            /\ lastBaseline' = NoBaseline
            /\ UNCHANGED <<ledger, ledger_exists, exclusions_from_this_run,
                           failing_packages, attempt>>
       ELSE \E answer \in HealAnswers, install_ok, oracle_ok \in BOOLEAN :
              LET new_packages ==
                      [p \in Pkgs |->
                          IF failing_packages[p] # NoVersion /\ p = answer.package
                          THEN answer.version ELSE failing_packages[p]]
              IN /\ ~install_ok => ~oracle_ok
                 /\ answer.kind # "changes" => ~install_ok
                 /\ AdvisorCall(TRUE, answer = QuotaExhausted)
                 /\ IF /\ answer.kind = "changes"
                       /\ BootstrapPasses(new_packages, install_ok, oracle_ok)
                    THEN BaselineFound("llm_heal", new_packages,
                                       {answer.package}, install_ok, oracle_ok)
                    ELSE /\ attempt' = attempt + 1
                         /\ lastBaseline' = NoBaseline
                         /\ UNCHANGED <<pc, ledger, ledger_exists,
                                        exclusions_from_this_run,
                                        failing_packages, suspect_index>>

\* Line 202: the suspects by usage score, highest first; first the variant
\* sorted lowest first.
sorted_suspects_ascending ==
    IF failing_packages = EmptyEnv THEN <<>>
    ELSE CHOOSE s \in [1..Cardinality(Pkgs) -> Pkgs] :
            /\ \A a, b \in 1..Cardinality(Pkgs) : a # b => s[a] # s[b]
            /\ \A a, b \in 1..Cardinality(Pkgs) :
                  a < b => usage_scores[s[a]] <= usage_scores[s[b]]

sorted_suspects ==
    IF failing_packages = EmptyEnv THEN <<>>
    ELSE CHOOSE s \in [1..Cardinality(Pkgs) -> Pkgs] :
            /\ \A a, b \in 1..Cardinality(Pkgs) : a # b => s[a] # s[b]
            /\ \A a, b \in 1..Cardinality(Pkgs) :
                  a < b => usage_scores[s[a]] >= usage_scores[s[b]]

\* Line 136: where run goes when no healing found a baseline; first the
\* variant that goes on to the passes.
NoBaselineExit_proceed == "plan"

NoBaselineExit == "fatal"

\* Lines 204-228: one turn of the loop of
\* _attempt_deterministic_bootstrap_heal, and line 136 after its last.
DeterministicBootstrapHeal ==
    /\ pc = "det_heal"
    /\ NoAdvisorCall
    /\ BootFrame
    /\ IF suspect_index > Len(sorted_suspects)
       THEN /\ pc' = NoBaselineExit
            /\ lastBaseline' = NoBaseline
            /\ UNCHANGED <<ledger, bootVars>>
       ELSE LET pkg_name == sorted_suspects[suspect_index]
                below == get_all_versions_between(pkg_name, LowestVersion,
                                                  failing_packages[pkg_name])
            IN IF below = <<>>
               THEN /\ suspect_index' = suspect_index + 1
                    /\ lastBaseline' = NoBaseline
                    /\ UNCHANGED <<pc, ledger, ledger_exists,
                                   exclusions_from_this_run,
                                   failing_packages, attempt>>
               ELSE \E install_ok, oracle_ok \in BOOLEAN :
                      LET new_packages ==
                              [failing_packages EXCEPT
                                  ![pkg_name] = below[Len(below)]]
                      IN /\ ~install_ok => ~oracle_ok
                         /\ IF BootstrapPasses(new_packages, install_ok, oracle_ok)
                            THEN BaselineFound("det_heal", new_packages,
                                               {pkg_name}, install_ok, oracle_ok)
                            ELSE /\ suspect_index' = suspect_index + 1
                                 /\ lastBaseline' = NoBaseline
                                 /\ UNCHANGED <<pc, ledger, ledger_exists,
                                                exclusions_from_this_run,
                                                failing_packages, attempt>>

\* ------------------------------------------------------------- run loop
\* Line 291: a constraint was returned and is not yet in the list; first the
\* variants without the membership test and with the test inverted.
IsNewConstraint_always(learned_constraint) ==
    learned_constraint # NoConstraint

IsNewConstraint_inverted(learned_constraint) ==
    /\ learned_constraint # NoConstraint
    /\ learned_constraint \in Range(dynamic_constraints)

IsNewConstraint(learned_constraint) ==
    /\ learned_constraint # NoConstraint
    /\ learned_constraint \notin Range(dynamic_constraints)

\* Line 302: the pass changed no version; first the variants that look at
\* the successes of the pass instead, and at nothing.
PassIsStable_succeeded ==
    ~succeeded_this_pass

PassIsStable_always ==
    TRUE

PassIsStable ==
    changed_packages_this_pass = {}

\* The locals of an attempt are gone when it returns.
ResetAttempt ==
    /\ version_candidates' = 0
    /\ candidates_probed' = 0
    /\ versions' = <<>>
    /\ low' = 0
    /\ high' = 0
    /\ best_working_result' = NoResult
    /\ healing_log' = <<>>
    /\ search_log' = <<>>

\* The for loop of line 279 moves to its next package, or ends; first the
\* variant in which every returned attempt ends the pass.
NextPackage_abort ==
    i' = i /\ pc' = "pass_end"

NextPackage ==
    IF i < Len(packages_to_update)
    THEN i' = i + 1 /\ pc' = "direct"
    ELSE i' = i /\ pc' = "pass_end"

\* Line 294: the break after a new constraint; first the variant that goes
\* on with the plan.
AbortPass_continue ==
    NextPackage

AbortPass ==
    i' = i /\ pc' = "pass_end"

\* Line 289: the record of a failed attempt; first the variant that records
\* nothing.
FailureRecord_none(reason) ==
    NoFailure

FailureRecord(reason) ==
    [target |-> target_ver, reason |-> reason]

\* Line 286: the failure records after a success of the package under
\* update.
FailuresAfterSuccess ==
    [final_failed_updates EXCEPT ![package] = NoFailure]

\* Lines 284-295: run takes the result of attempt_update_with_healing.
AttemptReturns(success, reason, learned_constraint) ==
    /\ ResetAttempt
    /\ UNCHANGED <<pass_num, packages_to_update, health_result, report>>
    /\ IF success
       THEN /\ final_successful_updates' =
                   [final_successful_updates EXCEPT
                       ![package] = [target |-> target_ver, reached |-> reason]]
            /\ final_failed_updates' = FailuresAfterSuccess
            /\ changed_packages_this_pass' =
                   IF current_ver # reason
                   THEN changed_packages_this_pass \cup {package}
                   ELSE changed_packages_this_pass
            /\ succeeded_this_pass' = TRUE
            /\ UNCHANGED <<dynamic_constraints, learned_a_new_constraint>>
            /\ NextPackage
       ELSE /\ final_failed_updates' =
                   [final_failed_updates EXCEPT ![package] = FailureRecord(reason)]
            /\ UNCHANGED <<final_successful_updates, changed_packages_this_pass,
                           succeeded_this_pass>>
            /\ IF IsNewConstraint(learned_constraint)
               THEN /\ dynamic_constraints' =
                           Append(dynamic_constraints, learned_constraint)
                    /\ learned_a_new_constraint' = TRUE
                    /\ AbortPass
               ELSE /\ UNCHANGED <<dynamic_constraints, learned_a_new_constraint>>
                    /\ NextPackage

\* Lines 250-252: the lines of one name in all_reqs collapse to one dict entry,
\* the last in the iteration order of a set of strings.  ledger_wins holds the
\* constrained packages whose ledger line is that entry.
ConstrainedPkgs ==
    {p \in Pkgs : \E c \in Range(dynamic_constraints) :
        _get_package_name_from_spec(c) = p}

\* Lines 254-263: the packages eligible in this pass (no constraint string of
\* Constraints holds '=='); first the variant without the test of line 256.
Eligible_excluded_too(ledger_wins) ==
    {p \in Pkgs :
        /\ p \in ConstrainedPkgs => p \in ledger_wins
        /\ get_latest_version(p) # NoVersion
        /\ get_latest_version(p) > ledger[p]}

Eligible(ledger_wins) ==
    {p \in Pkgs :
        /\ p \notin exclusions_from_this_run
        /\ p \in ConstrainedPkgs => p \in ledger_wins
        /\ get_latest_version(p) # NoVersion
        /\ get_latest_version(p) > ledger[p]}

PlanEntry(p) == <<p, ledger[p], get_latest_version(p)>>

\* Line 271: the plans sorted by risk, highest first; first the variant
\* sorted lowest first.
SortedPlans_ascending(S) ==
    {s \in [1..Cardinality(S) -> {PlanEntry(p) : p \in S}] :
        /\ \A a, b \in 1..Cardinality(S) : a # b => s[a] # s[b]
        /\ \A a, b \in 1..Cardinality(S) :
              a < b => _calculate_update_risk(s[a][1], s[a][2], s[a][3])
                       <= _calculate_update_risk(s[b][1], s[b][2], s[b][3])}

SortedPlans(S) ==
    {s \in [1..Cardinality(S) -> {PlanEntry(p) : p \in S}] :
        /\ \A a, b \in 1..Cardinality(S) : a # b => s[a] # s[b]
        /\ \A a, b \in 1..Cardinality(S) :
              a < b => _calculate_update_risk(s[a][1], s[a][2], s[a][3])
                       >= _calculate_update_risk(s[b][1], s[b][2], s[b][3])}

\* Lines 266-267: what the loop reports on an empty plan in pass number n;
\* first the variant that looks at the pass number alone.
EmptyPlanReport_by_pass(n) ==
    IF n = 1 THEN "up_to_date" ELSE "converged"

EmptyPlanReport(n) ==
    IF n = 1 /\ exclusions_from_this_run = {} THEN "up_to_date" ELSE "converged"

\* Lines 244-278: the head of one pass.
PlanPass ==
    /\ pc = "plan"
    /\ NoAdvisorCall
    /\ UNCHANGED bootVars
    /\ pass_num < MAX_RUN_PASSES
    /\ pass_num' = pass_num + 1
    /\ changed_packages_this_pass' = {}
    /\ succeeded_this_pass' = FALSE
    /\ \E ledger_wins \in SUBSET ConstrainedPkgs :
          IF Eligible(ledger_wins) = {}
          THEN /\ packages_to_update' = <<>>
               /\ i' = 0
               /\ pc' = "summary"
               /\ report' = EmptyPlanReport(pass_num')
               /\ UNCHANGED learned_a_new_constraint
          ELSE /\ packages_to_update' \in SortedPlans(Eligible(ledger_wins))
               /\ i' = 1
               /\ learned_a_new_constraint' = FALSE
               /\ pc' = "direct"
               /\ UNCHANGED report
    /\ root_cause' = NoData
    /\ NoProbeNow
    /\ NoWriteNow
    /\ UNCHANGED <<llm_available, dynamic_constraints, final_successful_updates,
                   final_failed_updates, attemptVars, diagnosed, health_result>>

\* Lines 297-304 and the loop test of line 244.
PassEnd ==
    /\ pc = "pass_end"
    /\ NoAdvisorCall
    /\ UNCHANGED bootVars
    /\ IF learned_a_new_constraint \/ ~PassIsStable
       THEN pc' = IF pass_num < MAX_RUN_PASSES THEN "plan" ELSE "summary"
       ELSE pc' = "summary"
    /\ root_cause' = NoData
    /\ NoProbeNow
    /\ NoWriteNow
    /\ UNCHANGED <<llm_available, loopVars, attemptVars>>

\* Line 307: final_successful_updates is not empty; first the variant that
\* runs the health check after every run.
HealthCheckDue_always ==
    TRUE

HealthCheckDue ==
    \E p \in Pkgs : final_successful_updates[p] # NoSuccess

\* Lines 306-308.
Summary ==
    /\ pc = "summary"
    /\ NoAdvisorCall
    /\ UNCHANGED bootVars
    /\ pc' = IF HealthCheckDue THEN "health_check" ELSE "done"
    /\ root_cause' = NoData
    /\ NoProbeNow
    /\ NoWriteNow
    /\ UNCHANGED <<llm_available, loopVars, attemptVars>>

\* The success records after _run_final_health_check (it only prints); first
\* the variant that drops them when the check did not pass.
RecordsAfterHealthCheck_rollback(result) ==
    IF result = "passed" THEN final_successful_updates
    ELSE [p \in Pkgs |-> NoSuccess]

RecordsAfterHealthCheck(result) ==
    final_successful_updates

\* _run_final_health_check: installs the ledger in final_venv, validates,
\* prints.
FinalHealthCheck ==
    /\ pc = "health_check"
    /\ NoAdvisorCall
    /\ UNCHANGED bootVars
    /\ pc' = "done"
    /\ \E install_ok, oracle_ok \in BOOLEAN :
          /\ health_result' = IF ~install_ok THEN "install_failed"
                              ELSE IF ~oracle_ok THEN "validation_failed"
                              ELSE "passed"
          /\ final_successful_updates' = RecordsAfterHealthCheck(health_result')
    /\ root_cause' = NoData
    /\ NoProbeNow
    /\ NoWriteNow
    /\ UNCHANGED <<llm_available, dynamic_constraints, pass_num,
                   packages_to_update, i, changed_packages_this_pass,
                   learned_a_new_constraint, final_failed_updates,
                   succeeded_this_pass, diagnosed, report, attemptVars>>

\* --------------------------------------------- attempt_update_with_healing
\* The healing chain in the order of lines 412, 417 and 428; first the variant
\* that asks for candidates before the diagnosis.
HealingChain_candidates_first == <<"ask_candidates", "diagnose", "binary_search">>

HealingChain == <<"diagnose", "ask_candidates", "binary_search">>

\* The stage after `stage`.
NextStage(stage) ==
    HealingChain[(CHOOSE k \in 1..Len(HealingChain) : HealingChain[k] = stage) + 1]

\* Lines 402-410: the direct probe of the target version.
DirectProbe ==
    /\ pc = "direct"
    /\ UNCHANGED bootVars
    /\ root_cause' = NoData
    /\ \E w \in World :
        LET r == _try_install_and_validate(package, target_ver, current_ver,
                                           changed_packages_this_pass, w)
        IN /\ Probed(package, target_ver, "direct", 0, <<>>, r)
           /\ IF r.success
              THEN /\ _handle_success(package, target_ver, EmptyEnv, r.validated)
                   /\ AttemptReturns(TRUE, target_ver, NoConstraint)
              ELSE /\ pc' = HealingChain[1]
                   /\ NoWriteNow
                   /\ UNCHANGED <<loopVars, attemptVars>>
    /\ UNCHANGED diagnosed

\* Line 413: the diagnosis is a non-empty object whose "package" is not the
\* package under update; first the variant that never takes a diagnosis.
BlamesOther_never(rc, pkg) ==
    FALSE

BlamesOther(rc, pkg) ==
    rc # NoData /\ rc.package # pkg

\* Lines 412-415 (_ask_llm_for_root_cause, lines 514-551).
Diagnose ==
    /\ pc = "diagnose"
    /\ UNCHANGED bootVars
    /\ NoProbeNow
    /\ NoWriteNow
    /\ \E answer \in DiagnosisAnswers(package) \cup {NoData}, quota \in BOOLEAN :
        /\ ~llm_available => (answer = NoData /\ ~quota)
        /\ quota => answer = NoData
        /\ llm_available' = (llm_available /\ ~quota)
        /\ AdvisorCall(llm_available, quota)
        /\ root_cause' = answer
        /\ IF BlamesOther(answer, package)
           THEN /\ diagnosed' =
                      IF answer.package \in Culprits
                      THEN diagnosed \cup {<<package, target_ver, answer.package>>}
                      ELSE diagnosed
                /\ AttemptReturns(FALSE, "Diagnosed incompatibility",
                                  [pkg |-> answer.package,
                                   con |-> answer.suggested_constraint])
           ELSE /\ pc' = NextStage("diagnose")
                /\ healing_log' = Append(healing_log, "diagnose")
                /\ UNCHANGED <<loopVars, version_candidates, candidates_probed,
                               versions, low, high, best_working_result,
                               search_log>>

\* Line 417 (_ask_llm_for_version_candidates, lines 553-579).  The answer is a
\* list of n entries; version_candidates counts the entries not yet read, and
\* the value of an entry is drawn when the loop of line 419 reads it.
AskCandidates ==
    /\ pc = "ask_candidates"
    /\ UNCHANGED bootVars
    /\ root_cause' = NoData
    /\ NoProbeNow
    /\ NoWriteNow
    /\ \E n \in 0..MaxCandLen, quota \in BOOLEAN :
        /\ ~llm_available => (n = 0 /\ ~quota)
        /\ quota => n = 0
        /\ llm_available' = (llm_available /\ ~quota)
        /\ AdvisorCall(llm_available, quota)
        /\ version_candidates' = n
        /\ pc' = IF n = 0 THEN NextStage("ask_candidates") ELSE "candidate"
    /\ healing_log' = Append(healing_log, "ask_candidates")
    /\ UNCHANGED <<loopVars, candidates_probed, versions, low, high,
                   best_working_result, search_log>>

\* The loop of line 419 goes on, and the chain after its last entry.
CandidatesLeft(rest) ==
    /\ version_candidates' = rest
    /\ pc' = IF rest = 0 THEN NextStage("ask_candidates") ELSE "candidate"

\* Lines 419-425: one turn of the candidate loop.
TryCandidate ==
    /\ pc = "candidate"
    /\ UNCHANGED bootVars
    /\ root_cause' = NoData
    /\ UNCHANGED diagnosed
    /\ \E candidate \in CandidateEntries :
        LET rest == version_candidates - 1
        IN IF candidate = NoVersion
           THEN \* parse_version(candidate) raises; nothing catches it
                /\ pc' = "crashed"
                /\ NoAdvisorCall
                /\ NoProbeNow
                /\ NoWriteNow
                /\ UNCHANGED <<llm_available, loopVars, attemptVars>>
           ELSE IF candidate <= current_ver
           THEN /\ CandidatesLeft(rest)
                /\ NoAdvisorCall
                /\ NoProbeNow
                /\ NoWriteNow
                /\ UNCHANGED <<llm_available, loopVars, candidates_probed,
                               versions, low, high, best_working_result,
                               healing_log, search_log>>
           ELSE \E w \in World :
                 LET r == _try_install_and_validate(package, candidate, current_ver,
                                                    changed_packages_this_pass, w)
                 IN /\ Probed(package, candidate, "candidate",
                              candidates_probed + 1, healing_log, r)
                    /\ IF r.success
                       THEN /\ _handle_success(package, candidate, EmptyEnv,
                                               r.validated)
                            /\ AttemptReturns(TRUE, candidate, NoConstraint)
                       ELSE /\ CandidatesLeft(rest)
                            /\ candidates_probed' = candidates_probed + 1
                            /\ NoWriteNow
                            /\ UNCHANGED <<loopVars, versions, low, high,
                                           best_working_result, healing_log,
                                           search_log>>

\* ------------------------------------------------ _binary_search_backtrack
\* Line 434: the ledger after the attempt returned failure (nothing writes
\* it); first the variant that persists the scratch environment.
LedgerAfterFailure_scratch ==
    env'

LedgerAfterFailure ==
    ledger

\* Lines 429-434: attempt_update_with_healing takes the search's result.
SearchReturns(result) ==
    IF result # NoResult
    THEN /\ _handle_success(package, result.version, result.installed_packages,
                            result.validated)
         /\ AttemptReturns(TRUE, result.version, NoConstraint)
    ELSE /\ AttemptReturns(FALSE, "All backtracking attempts failed.", NoConstraint)
         /\ lastWrite' = NoWrite
         /\ lastBaseline' = NoBaseline
         /\ ledger' = LedgerAfterFailure

\* Line 455: the version probed for an empty window; first the variant that
\* probes the version that failed.
EmptyWindowProbe_failed(last_good_version, failed_version) ==
    failed_version

EmptyWindowProbe(last_good_version, failed_version) ==
    last_good_version

\* Line 477: the window after a probe of versions[mid] that passed; first the
\* variants that skip the entry above mid and that keep mid in the window.
LowAfterPass_skip(mid) ==
    mid + 2

LowAfterPass_stay(mid) ==
    mid

LowAfterPass(mid) ==
    mid + 1

\* Lines 452-463: the candidate window; an empty one is answered by one probe
\* of last_good_version, and a failure of that probe falls through the loop.
SearchStart ==
    /\ pc = "binary_search"
    /\ UNCHANGED bootVars
    /\ root_cause' = NoData
    /\ UNCHANGED diagnosed
    /\ LET window == get_all_versions_between(package, current_ver, target_ver)
       IN IF window = <<>>
          THEN \E w \in World :
                LET test_version == EmptyWindowProbe(current_ver, target_ver)
                    r == _try_install_and_validate(package, test_version, current_ver,
                                                   changed_packages_this_pass, w)
                IN /\ Probed(package, test_version, "search", candidates_probed,
                             Append(healing_log, "binary_search"), r)
                   /\ SearchReturns(IF r.success
                                    THEN [version |-> current_ver,
                                          installed_packages |-> r.env,
                                          validated |-> r.validated]
                                    ELSE NoResult)
          ELSE /\ NoAdvisorCall
               /\ versions' = window
               /\ low' = 1
               /\ high' = Len(window)
               /\ best_working_result' = NoResult
               /\ pc' = "search_loop"
               /\ healing_log' = Append(healing_log, "binary_search")
               /\ NoProbeNow
               /\ NoWriteNow
               /\ UNCHANGED <<llm_available, loopVars, version_candidates,
                              candidates_probed, search_log>>

\* Lines 465-480: one turn of the search loop.
SearchStep ==
    /\ pc = "search_loop"
    /\ UNCHANGED bootVars
    /\ low <= high
    /\ root_cause' = NoData
    /\ NoWriteNow
    /\ LET mid == (low + high) \div 2
           test_version == versions[mid]
       IN \E w \in World :
            LET r == _try_install_and_validate(package, test_version, current_ver,
                                               changed_packages_this_pass, w)
            IN /\ Probed(package, test_version, "search", candidates_probed,
                         healing_log, r)
               /\ search_log' = Append(search_log, <<test_version, r.success>>)
               /\ IF r.success
                  THEN /\ best_working_result' =
                              [version |-> test_version,
                               installed_packages |-> r.env,
                               validated |-> r.validated]
                       /\ low' = LowAfterPass(mid)
                       /\ high' = high
                  ELSE /\ high' = mid - 1
                       /\ UNCHANGED <<low, best_working_result>>
    /\ UNCHANGED <<pc, loopVars, version_candidates, candidates_probed, versions,
                   healing_log>>

\* Lines 482-487 and 429-434: the loop has ended.
SearchEnd ==
    /\ pc = "search_loop"
    /\ low > high
    /\ NoAdvisorCall
    /\ UNCHANGED bootVars
    /\ root_cause' = NoData
    /\ NoProbeNow
    /\ SearchReturns(best_working_result)
    /\ UNCHANGED <<llm_available, diagnosed>>

Next ==
    \/ Start
    \/ Bootstrap
    \/ LLMBootstrapHeal
    \/ DeterministicBootstrapHeal
    \/ PlanPass
    \/ DirectProbe
    \/ Diagnose
    \/ AskCandidates
    \/ TryCandidate
    \/ SearchStart
    \/ SearchStep
    \/ SearchEnd
    \/ PassEnd
    \/ Summary
    \/ FinalHealthCheck

Spec == Init /\ [][Next]_vars

\* The run is one sequential process: it takes its next step until it ends.
FairSpec == Spec /\ WF_vars(Next)

\* =============================================================== claims
\* The constraint string a diagnosis is synthesized to (line 414).
ConstraintOf(rc) == [pkg |-> rc.package, con |-> rc.suggested_constraint]

\* The diagnosis names a package, and not the one under update.
NamesOther(rc, pkg) == rc.package \in Culprits /\ rc.package # pkg

IsPrefix(s, t) == Len(s) <= Len(t) /\ \A k \in 1..Len(s) : s[k] = t[k]

\* C1: every ledger write of the update passes is preceded by a probe of
\* exactly the version persisted in which the install succeeded and the
\* validation was executed and passed.
C1_WriteOnlyAfterValidatedProbe ==
    lastWrite # NoWrite =>
        /\ lastWrite.validated
        /\ lastWrite.probed = lastWrite.version

\* C2: whenever the diagnosis of a failed package names another package, the
\* rest of the pass is aborted at once (no later package of the plan is
\* attempted) and the next step re-plans a new pass, also when the constraint
\* is already in the list.
C2_EveryCrossDiagnosisAborts ==
    [][(pc = "diagnose" /\ NamesOther(root_cause', package))
         => (pc' = "pass_end" /\ i' = i /\ learned_a_new_constraint')]_vars

\* C2 as amended: a cross-package diagnosis whose constraint is not yet in the
\* list adds it and aborts the pass at once, and the next step plans a new pass,
\* or prints the summary once MAX_RUN_PASSES passes were started; one whose
\* constraint is already in the list lets the pass go on with its next package.
C2_NewConstraintAborts ==
    [][/\ (pc = "diagnose" /\ NamesOther(root_cause', package))
          => IF ConstraintOf(root_cause') \notin Range(dynamic_constraints)
             THEN /\ pc' = "pass_end"
                  /\ i' = i
                  /\ learned_a_new_constraint'
                  /\ dynamic_constraints' =
                        Append(dynamic_constraints, ConstraintOf(root_cause'))
             ELSE /\ UNCHANGED <<dynamic_constraints, learned_a_new_constraint>>
                  /\ IF i < Len(packages_to_update)
                     THEN pc' = "direct" /\ i' = i + 1
                     ELSE pc' = "pass_end"
       /\ (pc = "pass_end" /\ learned_a_new_constraint)
          => pc' = IF pass_num < MAX_RUN_PASSES THEN "plan" ELSE "summary"]_vars

\* C2's case: a diagnosis that named another package has just aborted a pass
\* that had a later package left.
C2_Witness ==
    /\ pc = "pass_end"
    /\ learned_a_new_constraint
    /\ root_cause.package \in Culprits
    /\ i < Len(packages_to_update)

C4_EveryProbeCarriesEveryConstraint ==
    lastProbe # NoProbe => Range(dynamic_constraints) \subseteq lastProbe.cons

\* C5: the constraint list only grows (what is in it stays in it) and never
\* holds the same constraint twice.
C5_ConstraintsOnlyGrow ==
    /\ [](\A a, b \in 1..Len(dynamic_constraints) :
             a # b => dynamic_constraints[a] # dynamic_constraints[b])
    /\ [][IsPrefix(dynamic_constraints, dynamic_constraints')]_vars

\* C5's case: a diagnosis has just returned a constraint the list already
\* held, in a run that learned two.
C5_Witness ==
    /\ Len(dynamic_constraints) >= 2
    /\ root_cause # NoData
    /\ ConstraintOf(root_cause) \in Range(dynamic_constraints)
    /\ ~learned_a_new_constraint

\* C6: at most MAX_RUN_PASSES passes are started, and whatever the probes and
\* the advisor answer the run does not end before its final summary.
C6_RunReachesSummary ==
    /\ pass_num <= MAX_RUN_PASSES
    /\ pc # "crashed"

\* C7: at the end of a pass that learned no constraint, the loop stops if no
\* package succeeded in the pass, and plans a further pass if one succeeded and
\* the pass bound is not reached.
C7_StopsIffNoSuccess ==
    [][(pc = "pass_end" /\ ~learned_a_new_constraint)
         => /\ ~succeeded_this_pass => pc' = "summary"
            /\ (succeeded_this_pass /\ pass_num < MAX_RUN_PASSES) => pc' = "plan"]_vars

\* C7 as amended: at the end of a pass that learned no constraint, the loop
\* stops if and only if no package changed its version in the pass or
\* MAX_RUN_PASSES passes were started; otherwise a further pass is planned.
C7_StopsIffNoChange ==
    [][(pc = "pass_end" /\ ~learned_a_new_constraint)
         => /\ pc' = "summary" <=>
                  (changed_packages_this_pass = {} \/ pass_num >= MAX_RUN_PASSES)
            /\ pc' = "plan" <=>
                  (changed_packages_this_pass # {} /\ pass_num < MAX_RUN_PASSES)]_vars

\* C7's case: the loop has stopped below the pass bound after a pass in which
\* a package succeeded at the version it was pinned at.
C7_Witness ==
    /\ pc = "summary"
    /\ packages_to_update # <<>>
    /\ ~learned_a_new_constraint
    /\ succeeded_this_pass
    /\ changed_packages_this_pass = {}
    /\ pass_num < MAX_RUN_PASSES

\* C8: a diagnosis that blames the package itself (cause self, with or without
\* a package name) or holds no data learns no constraint and goes on to the
\* advisor-candidate step.
C8_SelfOrNoDataAsksCandidates ==
    [][(pc = "diagnose" /\ root_cause'.cause \in {"self", "nodata"})
         => (pc' = "ask_candidates" /\ UNCHANGED dynamic_constraints)]_vars

\* C9: the healing chain is ordered and stops at the first success: an advisor
\* candidate is probed only after the diagnosis, the binary search probes only
\* after the diagnosis and after every candidate was read and failed, and a
\* candidate that passes is persisted and ends the attempt.
C9_HealingChainOrdered ==
    /\ lastProbe.kind = "candidate" =>
          lastProbe.after = <<"diagnose", "ask_candidates">>
    /\ lastProbe.kind = "search" =>
          lastProbe.after = <<"diagnose", "ask_candidates", "binary_search">>
    /\ pc \in {"binary_search", "search_loop"} => version_candidates = 0
    /\ (lastProbe.kind = "candidate" /\ lastProbe.success) =>
          /\ pc \in {"direct", "pass_end"}
          /\ healing_log = <<>>
          /\ lastWrite.package = lastProbe.package
          /\ lastWrite.version = lastProbe.version
          /\ ledger[lastProbe.package] = lastProbe.version

\* C9's case: a candidate has passed its probe after an earlier candidate of
\* the attempt failed.
C9_Witness ==
    /\ lastProbe.kind = "candidate"
    /\ lastProbe.success
    /\ lastProbe.nth >= 2

\* C10: at most MAX_LLM_BACKTRACK_ATTEMPTS advisor candidates are probed for a
\* failed package, however long the advisor's list.
C10_AtMostKCandidateProbes ==
    lastProbe.kind = "candidate" => lastProbe.nth <= MAX_LLM_BACKTRACK_ATTEMPTS

\* C11: a version found by the binary search is probed once more after the
\* search returned, and the ledger is written for it only if that probe
\* succeeds: every ledger write directly follows a successful probe of the
\* written version that is the direct probe, a candidate probe or the re-probe.
C11_SearchResultReprobed ==
    lastWrite # NoWrite =>
        /\ lastProbe.kind \in {"direct", "candidate", "reprobe"}
        /\ lastProbe.success
        /\ lastProbe.package = lastWrite.package
        /\ lastProbe.version = lastWrite.version

\* C12: a package whose every healing avenue failed with no constraint learned
\* is recorded as failed with its reason, and the pass goes on with the next
\* package of the plan.
C12_IndependentFailureContinues ==
    [][(/\ pc \in {"binary_search", "search_loop"}
        /\ pc' \notin {"binary_search", "search_loop"}
        /\ lastWrite' = NoWrite)
         => /\ final_failed_updates'[package] =
                  [target |-> target_ver,
                   reason |-> "All backtracking attempts failed."]
            /\ UNCHANGED <<ledger, dynamic_constraints, learned_a_new_constraint,
                           pass_num, packages_to_update>>
            /\ IF i < Len(packages_to_update)
               THEN pc' = "direct" /\ i' = i + 1
               ELSE pc' = "pass_end"]_vars

\* C12's case: the pass is at its second package after the first exhausted the
\* healing chain.
C12_Witness ==
    /\ pc = "direct"
    /\ i >= 2
    /\ final_failed_updates[packages_to_update[i - 1][1]] =
          [target |-> packages_to_update[i - 1][3],
           reason |-> "All backtracking attempts failed."]

\* C13: no advisor answer, a malformed payload included, leads the run to an
\* uncaught error.
C13_NoUncaughtError ==
    pc # "crashed"

\* The versions the search under way saw pass and fail.
PassedInSearch == {e[1] : e \in {x \in Range(search_log) : x[2]}}
FailedInSearch == {e[1] : e \in {x \in Range(search_log) : ~x[2]}}

\* C15: when the probes of the search are those of a threshold T (every
\* version seen to pass is below every version seen to fail), the search
\* returns the highest candidate below T: a candidate that passed and whose
\* successor in the window, if any, failed; and none when the lowest candidate
\* failed.
C15_SearchFindsThreshold ==
    (/\ pc = "search_loop"
     /\ low > high
     /\ \A a \in PassedInSearch, b \in FailedInSearch : a < b)
        => IF best_working_result = NoResult
           THEN versions[1] \in FailedInSearch
           ELSE \E k \in 1..Len(versions) :
                   /\ versions[k] = best_working_result.version
                   /\ versions[k] \in PassedInSearch
                   /\ k = Len(versions) \/ versions[k + 1] \in FailedInSearch

\* C15's case: a search over two or more candidates ended with a version that
\* passed below one that failed.
C15_Witness ==
    /\ pc = "search_loop"
    /\ low > high
    /\ Len(versions) >= 2
    /\ best_working_result # NoResult
    /\ FailedInSearch # {}

RECURSIVE FloorLog2(_)
FloorLog2(n) == IF n < 2 THEN 0 ELSE 1 + FloorLog2(n \div 2)

C17_EmptyWindowOneProbe ==
    [][(/\ pc = "binary_search"
        /\ get_all_versions_between(package, current_ver, target_ver) = <<>>)
         => /\ lastProbe'.kind = "search"
            /\ lastProbe'.package = package
            /\ lastProbe'.version = current_ver
            /\ pc' \in {"direct", "pass_end"}
            /\ IF lastProbe'.success
               THEN /\ lastWrite'.package = package
                    /\ lastWrite'.version = current_ver
                    /\ final_successful_updates'[package] =
                          [target |-> target_ver, reached |-> current_ver]
               ELSE /\ lastWrite' = NoWrite
                    /\ final_failed_updates'[package].reason =
                          "All backtracking attempts failed."]_vars

\* C17's case: the one probe of an empty window has just failed.
C17_Witness ==
    /\ lastProbe.kind = "search"
    /\ pc # "search_loop"
    /\ ~lastProbe.success

\* C18: once the pass loop has ended, the health check runs exactly once if an
\* update succeeded during the run and not at all otherwise.
C18_HealthCheckOnceIffSuccess ==
    /\ pc \notin {"done", "crashed"} => health_result = ""
    /\ pc = "done" =>
          (health_result # "" <=> \E p \in Pkgs : final_successful_updates[p] # NoSuccess)

\* C18's case: the run ended with a health check after its last pass was
\* aborted by a learned constraint.
C18_Witness ==
    /\ pc = "done"
    /\ health_result # ""
    /\ learned_a_new_constraint
    /\ pass_num = MAX_RUN_PASSES

\* C19: the final health check changes neither the ledger nor the constraint
\* list nor the success and failure records, whatever its outcome.
C19_HealthCheckFrame ==
    [][pc = "health_check"
         => UNCHANGED <<ledger, dynamic_constraints, final_successful_updates,
                        final_failed_updates>>]_vars

\* C19's case: the health check has failed its validation.
C19_Witness ==
    /\ pc = "done"
    /\ health_result = "validation_failed"

\* C14: once the advisor has answered a call with quota exhaustion, at any
\* point of the run, the bootstrap healing included, no later step calls the
\* advisor.
C14_CircuitBreaker ==
    [][quota_seen => ~advisor_called']_vars

\* C20: the plan of every pass holds exactly the ledger packages that are not
\* excluded and whose latest version of the index is above their pinned one,
\* whether or not a dynamic constraint names them.
C20_PlanIsExactlyOutdated ==
    [][(pc = "plan" /\ pc' # "plan")
         => {packages_to_update'[k][1] : k \in 1..Len(packages_to_update')} =
                {p \in Pkgs : /\ p \notin exclusions_from_this_run
                              /\ get_latest_version(p) # NoVersion
                              /\ get_latest_version(p) > ledger[p]}]_vars

\* The kind of the bump from version c to a higher version t.
BumpKind(c, t) ==
    IF t \div 4 > c \div 4 THEN "major"
    ELSE IF t \div 2 > c \div 2 THEN "minor"
    ELSE "patch"

\* The versions the risk of a bump is compared over.
RiskVersions == 1..(MaxVer + 5)

\* Of two bumps of one package (equal usage, equal primary status) the major
\* one scores above the minor one, and the minor one above the patch one.
RiskOrdersBumps ==
    \A p \in Pkgs : \A c1, t1, c2, t2 \in RiskVersions :
        (c1 < t1 /\ c2 < t2) =>
            /\ (BumpKind(c1, t1) = "major" /\ BumpKind(c2, t2) = "minor")
                  => _calculate_update_risk(p, c1, t1) > _calculate_update_risk(p, c2, t2)
            /\ (BumpKind(c1, t1) = "minor" /\ BumpKind(c2, t2) = "patch")
                  => _calculate_update_risk(p, c1, t1) > _calculate_update_risk(p, c2, t2)

\* C21: within every pass the packages are attempted in the order of the
\* plan, the plan is in non-increasing order of risk score, and the score
\* puts a major bump before a minor one and a minor one before a patch one.
C21_AttemptedByRisk ==
    /\ [](\A a, b \in 1..Len(packages_to_update) :
             a < b => _calculate_update_risk(packages_to_update[a][1],
                                             packages_to_update[a][2],
                                             packages_to_update[a][3])
                      >= _calculate_update_risk(packages_to_update[b][1],
                                                packages_to_update[b][2],
                                                packages_to_update[b][3]))
    /\ [](lastProbe # NoProbe => lastProbe.package \in
             {packages_to_update[k][1] : k \in {i - 1, i} \cap 1..Len(packages_to_update)})
    /\ [](pc = "plan" => RiskOrdersBumps)
    /\ [][pc \notin {"plan", "start", "bootstrap", "llm_heal", "det_heal"}
            => i' \in {i, i + 1}]_vars

\* C21's case: the second package of a plan is under attempt after the first.
C21_Witness ==
    /\ pc = "direct"
    /\ i = 2
    /\ _calculate_update_risk(packages_to_update[1][1], packages_to_update[1][2],
                              packages_to_update[1][3])
       > _calculate_update_risk(packages_to_update[2][1], packages_to_update[2][2],
                                packages_to_update[2][3])

\* C22: an empty plan stops the loop without a probe, with the report
\* 'up to date' exactly when the pass is pass 1 and 'converged' exactly when
\* it is a later pass.
C22_ReportByPassNumber ==
    report # "" =>
        /\ packages_to_update = <<>>
        /\ report = "up_to_date" <=> pass_num = 1
        /\ report = "converged" <=> pass_num > 1

\* C22 as amended: an empty plan stops the loop without a probe, with the
\* report 'up to date' exactly when the pass is pass 1 and the bootstrap
\* healing excluded no package, and 'converged' otherwise.
C22_ReportByPassAndExclusions ==
    /\ [](report # "" =>
             /\ packages_to_update = <<>>
             /\ pc \in {"summary", "health_check", "done"}
             /\ lastProbe = NoProbe
             /\ report = "up_to_date" <=>
                   (pass_num = 1 /\ exclusions_from_this_run = {})
             /\ report = "converged" <=>
                   (pass_num > 1 \/ exclusions_from_this_run # {}))
    /\ [][(pc = "plan" /\ packages_to_update' = <<>>)
            => (pc' = "summary" /\ report' # "" /\ lastProbe' = NoProbe)]_vars

\* C22's case: the plan of pass 1 is empty after the bootstrap healing
\* excluded a package.
C22_Witness ==
    /\ report = "converged"
    /\ pass_num = 1
    /\ exclusions_from_this_run # {}

\* Pass 1 has ended: its plan held every ledger package, each exactly one
\* version behind the index, and no probe of the run has failed.
OneBehindPassDone ==
    /\ pc = "pass_end"
    /\ pass_num = 1
    /\ ~probe_failed
    /\ Len(packages_to_update) = Cardinality(Pkgs)
    /\ \A k \in 1..Len(packages_to_update) :
          /\ packages_to_update[k][3] = get_latest_version(packages_to_update[k][1])
          /\ packages_to_update[k][2] = packages_to_update[k][3] - 1

AllAtLatest ==
    \A p \in Pkgs : ledger[p] = get_latest_version(p)

\* C23: with N ledger packages each exactly one version behind and every
\* probe succeeding, the loop finishes in exactly 1 pass: no second pass is
\* started after pass 1, and all N packages are persisted at their latest.
C23_OnePassOnly ==
    [][OneBehindPassDone => (AllAtLatest /\ pc' = "summary")]_vars

\* C23 as amended: with N ledger packages each exactly one version behind
\* and every probe succeeding, pass 1 persists all N packages at their latest
\* version; a second pass is then started, finds an empty plan, executes no
\* probe and reports 'converged'.
C23_ConvergesAtSecondPlan ==
    /\ [](OneBehindPassDone =>
             /\ AllAtLatest
             /\ i = Cardinality(Pkgs)
             /\ changed_packages_this_pass = Pkgs
             /\ \A p \in Pkgs :
                   final_successful_updates[p] =
                       [target |-> get_latest_version(p),
                        reached |-> get_latest_version(p)])
    /\ [][OneBehindPassDone => (pc' = "plan" /\ pass_num' = 1)]_vars
    /\ [][(/\ pc = "plan"
           /\ pass_num = 1
           /\ ~probe_failed
           /\ changed_packages_this_pass = Pkgs
           /\ AllAtLatest)
            => (/\ pc' = "summary"
                /\ pass_num' = 2
                /\ packages_to_update' = <<>>
                /\ report' = "converged"
                /\ lastProbe' = NoProbe
                /\ AllAtLatest')]_vars

\* C23's case: pass 1 has updated every package of a ledger that was one
\* version behind throughout.
C23_Witness ==
    OneBehindPassDone /\ AllAtLatest /\ changed_packages_this_pass = Pkgs

\* The worked example: the plan is [numpy, pandas] and numpy is under update.
ProtobufBelow4 == [pkg |-> "protobuf", con |-> "<4"]

NumpyThenPandas ==
    /\ Len(packages_to_update) = 2
    /\ packages_to_update[1][1] = "numpy"
    /\ packages_to_update[2][1] = "pandas"
    /\ i = 1

BlamesProtobuf(rc) ==
    rc # NoData /\ rc.package = "protobuf" /\ rc.suggested_constraint = "<4"

\* C24: with plan [numpy, pandas], when numpy's direct probe fails and the
\* diagnosis blames protobuf with '<4', 'protobuf<4' is added, pandas is not
\* probed in that pass, and in the restarted pass numpy is probed with
\* 'protobuf<4' in its request before any probe of pandas.
C24_WorkedExample ==
    /\ [][(/\ pc = "diagnose"
           /\ NumpyThenPandas
           /\ ProtobufBelow4 \notin Range(dynamic_constraints)
           /\ BlamesProtobuf(root_cause'))
            => (/\ dynamic_constraints' =
                      Append(dynamic_constraints, ProtobufBelow4)
                /\ learned_a_new_constraint'
                /\ pc' = "pass_end"
                /\ i' = 1
                /\ lastProbe' = NoProbe
                /\ UNCHANGED <<ledger, packages_to_update>>)]_vars
    /\ [][(/\ pc = "pass_end"
           /\ NumpyThenPandas
           /\ learned_a_new_constraint)
            => (/\ lastProbe' = NoProbe
                /\ UNCHANGED <<ledger, packages_to_update, i, dynamic_constraints>>
                /\ pc' = IF pass_num < MAX_RUN_PASSES THEN "plan" ELSE "summary")]_vars
    /\ [][(/\ pc = "plan"
           /\ NumpyThenPandas
           /\ learned_a_new_constraint
           /\ ProtobufBelow4 \in Range(dynamic_constraints))
            => (/\ pc' = "direct"
                /\ packages_to_update'[1] = packages_to_update[1]
                /\ i' = 1
                /\ lastProbe' = NoProbe)]_vars
    /\ [][(/\ pc = "direct"
           /\ i = 1
           /\ packages_to_update[1][1] = "numpy"
           /\ ProtobufBelow4 \in Range(dynamic_constraints))
            => (/\ lastProbe'.package = "numpy"
                /\ lastProbe'.version = packages_to_update[1][3]
                /\ ProtobufBelow4 \in lastProbe'.cons)]_vars

\* The steps of run before the first pass.
BootStages == {"start", "bootstrap", "llm_heal", "det_heal"}

\* Every ledger line there is holds '=='.
FullyPinned ==
    ledger_exists /\ \A p \in Pkgs : ledger[p] \in Versions

\* C25: the ledger is fully pinned whenever an update pass is planned or an
\* update probe is executed: the first pass starts only after the ledger was
\* read as fully pinned (bootstrap having run first when it was not), and
\* every ledger write made during the passes leaves it fully pinned.
C25_PinnedInPasses ==
    /\ (pc \notin BootStages \cup {"fatal"}) => FullyPinned
    /\ lastProbe # NoProbe => FullyPinned
    /\ lastWrite # NoWrite => FullyPinned
    /\ pass_num > 0 => FullyPinned

\* C25's case: a pass that follows a bootstrap has written the ledger.
C25_Witness ==
    /\ exclusions_from_this_run # {}
    /\ pass_num >= 1
    /\ lastProbe # NoProbe
    /\ lastWrite # NoWrite

\* C26: an irrecoverable bootstrap is fatal and leaves no partial baseline:
\* when the permissive install and every advisor-guided and deterministic
\* downgrade attempt have failed the process exits, no pass is started, and
\* the ledger is what it was before the run.
C26_FatalWithoutBaseline ==
    /\ [](pc = "fatal" =>
             /\ attempt = MAX_LLM_BACKTRACK_ATTEMPTS
             /\ suspect_index > Len(sorted_suspects)
             /\ pass_num = 0
             /\ packages_to_update = <<>>
             /\ lastProbe = NoProbe
             /\ lastWrite = NoWrite
             /\ lastBaseline = NoBaseline
             /\ ~FullyPinned)
    /\ [][(pc = "det_heal" /\ suspect_index > Len(sorted_suspects))
            => pc' = "fatal"]_vars
    /\ [][(pc \in BootStages /\ pc' # "plan")
            => (pc' \in BootStages \cup {"fatal"}
                /\ UNCHANGED <<ledger, ledger_exists>>)]_vars
    /\ [][pc # "fatal"]_vars

\* C26's case: the permissive install was validated and failed, no healing
\* found a baseline, and the process has exited.
C26_Witness ==
    /\ pc = "fatal"
    /\ ledger_exists
    /\ failing_packages # EmptyEnv
    /\ quota_seen

\* C27: every baseline that bootstrap writes to the ledger (from the
\* permissive install, an advisor-guided heal or a deterministic heal) is the
\* frozen package set of an environment whose install succeeded and whose
\* validation passed in that same attempt.
C27_BaselineValidated ==
    /\ [](lastBaseline # NoBaseline =>
             /\ lastBaseline.source \in {"bootstrap", "llm_heal", "det_heal"}
             /\ lastBaseline.installed
             /\ lastBaseline.validated
             /\ ledger = lastBaseline.frozen
             /\ FullyPinned
             /\ pc = "plan")
    /\ [][(pc \in BootStages /\ <<ledger, ledger_exists>>' # <<ledger, ledger_exists>>)
            => (lastBaseline' # NoBaseline /\ lastBaseline'.source = pc)]_vars

\* C27's case: a deterministic heal has just written its baseline.
C27_Witness ==
    /\ lastBaseline # NoBaseline
    /\ lastBaseline.source = "det_heal"
    /\ ledger = lastBaseline.frozen

\* The versions the step about to be taken may probe.
NextProbeVersions ==
    IF pc = "direct" THEN {target_ver}
    ELSE IF pc = "candidate" THEN {v \in Versions : v > current_ver}
    ELSE IF pc = "binary_search"
            /\ get_all_versions_between(package, current_ver, target_ver) = <<>>
    THEN {EmptyWindowProbe(current_ver, target_ver)}
    ELSE IF pc = "search_loop" /\ low <= high
    THEN {versions[(low + high) \div 2]}
    ELSE {}

\* C28: the outcome of a probe depends only on the requested spec set: with
\* the same request and the same install and oracle behaviour the probe
\* returns the same result whatever packages have changed so far in the pass.
C28_ProbeIgnoresHistory ==
    \A v \in NextProbeVersions, w \in World, changed \in SUBSET Pkgs :
        _try_install_and_validate(package, v, current_ver, changed, w).success
        = _try_install_and_validate(package, v, current_ver,
                                    changed_packages_this_pass, w).success

\* C29: a missing ledger file is fatal through its own exit path: the run
\* does not enter the bootstrap, does not end at the no-baseline exit, and
\* executes no install probe and no advisor call.
C29_LedgerMissingExit ==
    ~ledger_exists =>
        /\ pc \notin {"bootstrap", "llm_heal", "det_heal", "fatal"}
        /\ ~advisor_called
        /\ lastProbe = NoProbe

\* The canonical form of a name (lower case, '-' for '_').
Canon(name) ==
    IF name = "NumPy" THEN "numpy" ELSE name

\* C30: names that differ only in letter case or separator denote the same
\* package wherever a name is looked up; in particular a package excluded
\* under one spelling is not planned under another.
C30_CanonicalExclusion ==
    \A k \in 1..Len(packages_to_update) :
        Canon(packages_to_update[k][1])
            \notin {Canon(e) : e \in exclusions_from_this_run}

\* The severity the bump from c to t is given: by the major and minor
\* numbers, 1 when one of the two is no version.
Severity(c, t) ==
    IF c = NoVersion \/ t = NoVersion THEN 1
    ELSE CASE t \div 4 > c \div 4 -> 3
           [] t \div 4 <= c \div 4 /\ (t \div 2) % 2 > (c \div 2) % 2 -> 2
           [] OTHER -> 1

\* C31: the risk score is 5*usage + 3*isPrimary + 2*severity, with severity
\* 3 for a higher major number, else 2 for a higher minor number, else 1
\* (also for a version that cannot be parsed); numpy (usage 2, primary, major
\* bump) scores 19 and pandas (usage 1, not primary, minor bump) scores 9.
C31_RiskScore ==
    /\ \A k \in 1..Len(packages_to_update) :
          _calculate_update_risk(packages_to_update[k][1], packages_to_update[k][2],
                                 packages_to_update[k][3])
          = 5 * usage_scores[packages_to_update[k][1]]
            + 3 * (IF packages_to_update[k][1] \in primary_packages THEN 1 ELSE 0)
            + 2 * Severity(packages_to_update[k][2], packages_to_update[k][3])
    /\ pc = "plan" =>
          /\ \A p \in Pkgs : \A c, t \in RiskVersions \cup {NoVersion} :
                _calculate_update_risk(p, c, t)
                = 5 * usage_scores[p]
                  + 3 * (IF p \in primary_packages THEN 1 ELSE 0)
                  + 2 * Severity(c, t)
          /\ usage_scores["numpy"] = 2 /\ "numpy" \in primary_packages
          /\ usage_scores["pandas"] = 1 /\ "pandas" \notin primary_packages
          /\ \A c, t \in RiskVersions :
                /\ BumpKind(c, t) = "major" /\ c < t
                      => _calculate_update_risk("numpy", c, t) = 19
                /\ BumpKind(c, t) = "minor" /\ c < t
                      => _calculate_update_risk("pandas", c, t) = 9

\* C31's case: a plan of numpy and pandas has been scored and sorted.
C31_Witness ==
    /\ pc = "direct"
    /\ Len(packages_to_update) = 2
    /\ packages_to_update[1][1] = "numpy"
    /\ _calculate_update_risk("numpy", packages_to_update[1][2],
                              packages_to_update[1][3]) \in {15, 17, 19}
    /\ _calculate_update_risk("pandas", packages_to_update[2][2],
                              packages_to_update[2][3]) \in {7, 9, 11}

\* The stages of attempt_update_with_healing, the step by which it returns,
\* and the stages in which the summary is out.
AttemptStages ==
    {"direct", "diagnose", "ask_candidates", "candidate", "binary_search",
     "search_loop"}

Returned ==
    /\ pc \in AttemptStages
    /\ pc' = "pass_end" \/ (pc' = "direct" /\ i' = i + 1)

SummaryStages == {"summary", "health_check", "done"}

\* C32: every package for which an update attempt failed at some point of
\* the run appears in the failed section of the final summary.
C32_EveryFailureListed ==
    pc \in SummaryStages =>
        \A d \in diagnosed : final_failed_updates[d[1]] # NoFailure

\* C32 as amended: every package whose most recent attempt failed is in the
\* failed section of the summary with the target and reason of that attempt;
\* a later success of the package removes its failure record, and nothing
\* else changes a record.
C32_LastFailureListed ==
    /\ [][(Returned /\ lastWrite' = NoWrite)
            => (/\ final_failed_updates'[package].target = target_ver
                /\ final_failed_updates'[package].reason
                      \in {"Diagnosed incompatibility",
                           "All backtracking attempts failed."}
                /\ final_successful_updates' = final_successful_updates)]_vars
    /\ [][(Returned /\ lastWrite' # NoWrite)
            => (/\ final_failed_updates'[package] = NoFailure
                /\ final_successful_updates'[package] # NoSuccess)]_vars
    /\ [][\A p \in Pkgs :
            (\/ final_failed_updates'[p] # final_failed_updates[p]
             \/ final_successful_updates'[p] # final_successful_updates[p])
                => (Returned /\ p = package)]_vars
    /\ [][(pc \in SummaryStages)
            => UNCHANGED <<final_failed_updates, final_successful_updates>>]_vars

\* C32's case: the summary is out, numpy's attempt failed on a diagnosis in
\* one pass and succeeded in a later one, and pandas' last attempt failed.
C32_Witness ==
    /\ pc \in SummaryStages
    /\ \E t \in Versions : <<"numpy", t, "protobuf">> \in diagnosed
    /\ final_failed_updates["numpy"] = NoFailure
    /\ final_successful_updates["numpy"] # NoSuccess
    /\ final_failed_updates["pandas"] # NoFailure

\* The packages in which the package lists a and b differ.
Differs(a, b) == {p \in Pkgs : a[p] # b[p]}

\* The highest version of the index below v.
HighestBelow(p, v) == Max({u \in Registry(p) : u < v})

C34_FailedAttemptKeepsLedger ==
    /\ [](pc \in AttemptStages =>
             /\ ledger[package] = current_ver
             /\ lastWrite # NoWrite => lastWrite.package # package)
    /\ [][(pc \in AttemptStages /\ ~Returned) => ledger' = ledger]_vars
    /\ [][(Returned /\ final_failed_updates'[package] # NoFailure)
            => (ledger' = ledger /\ lastWrite' = NoWrite)]_vars

\* C34's case: an attempt has returned failure after its direct probe and a
\* probe of the binary search.
C34_Witness ==
    /\ pc \in {"direct", "pass_end"}
    /\ lastProbe # NoProbe
    /\ lastProbe.kind = "search"
    /\ ~lastProbe.success
    /\ final_failed_updates[lastProbe.package].reason
          = "All backtracking attempts failed."
    /\ ledger[lastProbe.package] = lastProbe.version
    /\ lastWrite = NoWrite

\* C35: every version attempt_update_with_healing persists for a package is
\* never lower than the version pinned when the attempt began and never
\* higher than the attempt's target version.
C35_PersistedWithinBounds ==
    [][(pc \in AttemptStages /\ lastWrite' # NoWrite)
         => (/\ lastWrite'.package = package
             /\ ledger'[package] = lastWrite'.version
             /\ current_ver <= lastWrite'.version
             /\ lastWrite'.version <= target_ver)]_vars

\* C36: for every pattern of probe outcomes the version the search returns
\* is the highest of the versions that passed a probe during the search, and
\* the package set persisted for it is the one frozen right after that
\* version's own successful probe, not the scratch environment a later probe
\* left.
C36_SearchReturnsHighestPassed ==
    /\ [](pc = "search_loop" =>
             IF PassedInSearch = {}
             THEN best_working_result = NoResult
             ELSE /\ best_working_result.version = Max(PassedInSearch)
                  /\ best_working_result.installed_packages
                        = RequestedPins(package, Max(PassedInSearch)))
    /\ [][(pc = "search_loop" /\ low > high /\ best_working_result # NoResult)
            => (/\ ledger' = RequestedPins(package, Max(PassedInSearch))
                /\ lastWrite'.package = package
                /\ lastWrite'.version = Max(PassedInSearch)
                /\ final_successful_updates'[package].reached = Max(PassedInSearch)
                /\ UNCHANGED env)]_vars
    /\ [][(pc = "search_loop" /\ low > high /\ best_working_result = NoResult)
            => (lastWrite' = NoWrite
                /\ final_failed_updates'[package] # NoFailure)]_vars

\* C36's case: the search has persisted a version that passed, after a later
\* probe of another version failed and left another scratch environment.
C36_Witness ==
    /\ lastWrite # NoWrite
    /\ lastProbe = NoProbe
    /\ env # ledger
    /\ ledger[lastWrite.package] = lastWrite.version
    /\ final_successful_updates[lastWrite.package].reached = lastWrite.version

\* C37: when the final summary is printed, no package is listed both among
\* the successful updates and among the failed updates.
C37_SuccessAndFailureDisjoint ==
    pc \in SummaryStages =>
        \A p \in Pkgs :
            ~(final_successful_updates[p] # NoSuccess
              /\ final_failed_updates[p] # NoFailure)

\* C38: at most one new constraint is learned per pass, so the number of
\* dynamic constraints is at most the number of passes started, and a pass
\* is restarted only in a pass that added a constraint not already in the
\* list.
C38_OneConstraintPerPass ==
    /\ [](Len(dynamic_constraints) <= pass_num)
    /\ [](\A a, b \in 1..Len(dynamic_constraints) :
             a # b => dynamic_constraints[a] # dynamic_constraints[b])
    /\ [](learned_a_new_constraint =>
             /\ pc \notin AttemptStages
             /\ dynamic_constraints # <<>>)
    /\ [][dynamic_constraints' # dynamic_constraints
            => (/\ pc \in AttemptStages
                /\ ~learned_a_new_constraint
                /\ learned_a_new_constraint'
                /\ pc' = "pass_end"
                /\ UNCHANGED pass_num
                /\ \E c \in Constraints \ Range(dynamic_constraints) :
                      dynamic_constraints' = Append(dynamic_constraints, c))]_vars
    /\ [][(pc = "pass_end" /\ pc' = "plan" /\ changed_packages_this_pass = {})
            => learned_a_new_constraint]_vars
    /\ [][(pc = "plan" /\ pc' = "direct") => ~learned_a_new_constraint']_vars

\* C38's case: every pass started so far has been ended by a constraint it
\* added.
C38_Witness ==
    /\ pc = "pass_end"
    /\ learned_a_new_constraint
    /\ pass_num >= 2
    /\ Len(dynamic_constraints) = pass_num

\* C39: when the diagnosis of a failed package blames another package, the
\* package receives no advisor-candidate probe and no binary-search probe in
\* that attempt and is recorded as failed, also when the constraint was
\* already known; in that case the pass is not restarted and continues with
\* the next package.
C39_DiagnosisEndsAttempt ==
    /\ [](pc = "diagnose" =>
             /\ lastProbe.kind = "direct"
             /\ lastProbe.package = package
             /\ ~lastProbe.success
             /\ healing_log = <<>>)
    /\ [](lastProbe.kind \in {"candidate", "search"}
             => lastProbe.after # <<>> /\ lastProbe.after[1] = "diagnose")
    /\ [][(pc = "diagnose" /\ NamesOther(root_cause', package))
            => (/\ lastProbe' = NoProbe
                /\ lastWrite' = NoWrite
                /\ UNCHANGED <<ledger, final_successful_updates, pass_num,
                               packages_to_update>>
                /\ final_failed_updates'[package] =
                      [target |-> target_ver, reason |-> "Diagnosed incompatibility"]
                /\ pc' \in {"direct", "pass_end"}
                /\ ConstraintOf(root_cause') \in Range(dynamic_constraints)
                      => (/\ UNCHANGED <<dynamic_constraints,
                                         learned_a_new_constraint>>
                          /\ IF i < Len(packages_to_update)
                             THEN pc' = "direct" /\ i' = i + 1
                             ELSE pc' = "pass_end" /\ i' = i))]_vars

\* C39's case: the diagnosis of the first package of the plan blamed another
\* package with a constraint already known, and the pass went on with the
\* second package.
C39_Witness ==
    /\ pc = "direct"
    /\ i = 2
    /\ lastProbe = NoProbe
    /\ root_cause # NoData
    /\ NamesOther(root_cause, packages_to_update[1][1])
    /\ ConstraintOf(root_cause) \in Range(dynamic_constraints)
    /\ ~learned_a_new_constraint
    /\ final_failed_updates[packages_to_update[1][1]].reason
          = "Diagnosed incompatibility"

\* C40: a package that bootstrap healing downgraded is added to the run's
\* exclusion set, the exclusion set never shrinks during the run, and an
\* excluded package is never put in the update plan of any pass nor probed
\* as the package under update.
C40_ExcludedNeverUpdated ==
    /\ [](\A k \in 1..Len(packages_to_update) :
             packages_to_update[k][1] \notin exclusions_from_this_run)
    /\ [](lastProbe # NoProbe => lastProbe.package \notin exclusions_from_this_run)
    /\ [](lastWrite # NoWrite => lastWrite.package \notin exclusions_from_this_run)
    /\ [][exclusions_from_this_run \subseteq exclusions_from_this_run']_vars
    /\ [][(pc \in {"llm_heal", "det_heal"} /\ lastBaseline' # NoBaseline)
            => (/\ Differs(ledger', failing_packages)
                      \subseteq exclusions_from_this_run'
                /\ exclusions_from_this_run' # {})]_vars
    /\ [][(pc \notin BootStages) => UNCHANGED exclusions_from_this_run]_vars

\* C40's case: bootstrap healing moved pandas below the latest version of
\* the index, and a pass has probed without pandas in its plan.
C40_Witness ==
    /\ exclusions_from_this_run = {"pandas"}
    /\ ledger["pandas"] < get_latest_version("pandas")
    /\ Len(packages_to_update) = 1
    /\ lastProbe # NoProbe
    /\ lastProbe.package = "numpy"

====
